---- MODULE Spec2Model ----
(***************************************************************************)
(* SimpleDB (package db): a single-file key-value store.  The Log is the   *)
(* file, a sequence of bytes; the Index is the map db.data from key to the *)
(* byte offset of the key's latest record.  A byte is modelled as a short  *)
(* string; "LF", "CR", "QUOTE" and "BSLASH" stand for the bytes 0x0A,      *)
(* 0x0D, 0x22 and 0x5C.  A Go string is the sequence of its bytes.         *)
(***************************************************************************)
EXTENDS Integers, Sequences, FiniteSets, TLC

\* ------------------------------------------------------------------ bounds

\* Successful appends allowed in one behaviour.
MaxSets == 2

\* OpenDB calls allowed in one behaviour (the first open and the reopens).
MaxOpens == 2

\* Writes the operating system fails in one behaviour.
MaxFaults == 1

\* bufio.MaxScanTokenSize, the longest line bufio.Scanner buffers.  Go sets it
\* to 64 * 1024; the model scales it down so that a record can exceed it.
MaxScanTokenSize == 26

\* bufio's default reader buffer: the bytes one fill of bufio.NewReader asks
\* the file for.
defaultBufSize == 4096

\* ------------------------------------------------------------ input domains

Keys == { <<"a">>, <<"b">> }

\* "1" is a plain value, LF must be escaped by the encoder, and LongValue
\* encodes to a line of MaxScanTokenSize + 1 bytes.
LongValue == <<"QUOTE", "BSLASH", "2">>

ShortValues == { <<"1">>, <<"LF">> }

Values == ShortValues \cup { LongValue }

Threads == { "t1", "t2" }

\* ------------------------------------------------------------- byte helpers

Drop(s, n) == SubSeq(s, n + 1, Len(s))

Take(s, n) == SubSeq(s, 1, n)

HasPrefix(s, p) == Len(s) >= Len(p) /\ Take(s, Len(p)) = p

IsPrefix(p, s) == HasPrefix(s, p)

\* Position of the first b in s, 0 when there is none (bytes.IndexByte + 1).
IndexByte(s, b) ==
  IF \E i \in 1..Len(s) : s[i] = b
  THEN CHOOSE i \in 1..Len(s) : s[i] = b /\ \A j \in 1..(i - 1) : s[j] # b
  ELSE 0

\* ---------------------------------------------------- encoding/json, KVPair

\* An encoder that writes every byte as it is.
EscapeByteRaw(b) == <<b>>

\* The encoder's string escapes (encoding/json: the quote, the backslash and
\* the control bytes are written as two-byte escapes).
EscapeByte(b) ==
  CASE b = "QUOTE"  -> <<"BSLASH", "QUOTE">>
    [] b = "BSLASH" -> <<"BSLASH", "BSLASH">>
    [] b = "LF"     -> <<"BSLASH", "n">>
    [] b = "CR"     -> <<"BSLASH", "r">>
    [] OTHER        -> <<b>>

RECURSIVE EscapeString(_)
EscapeString(s) ==
  IF s = <<>> THEN <<>> ELSE EscapeByte(Head(s)) \o EscapeString(Tail(s))

QuoteString(s) == <<"QUOTE">> \o EscapeString(s) \o <<"QUOTE">>

KeyField == <<"QUOTE", "k", "e", "y", "QUOTE", ":">>

ValueField == <<"QUOTE", "v", "a", "l", "u", "e", "QUOTE", ":">>

\* json.Marshal(KVPair{Key: key, Value: value}): {"key":"..","value":".."}
jsonMarshal(key, value) ==
  <<"{">> \o KeyField \o QuoteString(key) \o <<",">> \o ValueField
          \o QuoteString(value) \o <<"}">>

IsSpace(b) == b \in {"LF", "CR", "SP", "TAB"}

RECURSIVE TrimLeft(_)
TrimLeft(s) ==
  IF s # <<>> /\ IsSpace(Head(s)) THEN TrimLeft(Tail(s)) ELSE s

RECURSIVE TrimRight(_)
TrimRight(s) ==
  IF s # <<>> /\ IsSpace(s[Len(s)]) THEN TrimRight(Take(s, Len(s) - 1)) ELSE s

UnescapeByte(b) ==
  CASE b = "QUOTE"  -> "QUOTE"
    [] b = "BSLASH" -> "BSLASH"
    [] b = "n"      -> "LF"
    [] b = "r"      -> "CR"
    [] OTHER        -> "INVALID"

DecodeFail == [ok |-> FALSE, str |-> <<>>, rest |-> <<>>]

\* The decoder reading a string literal's bytes after its opening quote: the
\* string and the bytes after its closing quote.  A raw control byte, an
\* unknown escape and a missing closing quote are syntax errors.
RECURSIVE ScanString(_, _)
ScanString(s, acc) ==
  IF s = <<>> THEN DecodeFail
  ELSE IF Head(s) = "QUOTE" THEN [ok |-> TRUE, str |-> acc, rest |-> Tail(s)]
  ELSE IF Head(s) \in {"LF", "CR", "TAB"} THEN DecodeFail
  ELSE IF Head(s) = "BSLASH"
       THEN IF Len(s) < 2 \/ UnescapeByte(s[2]) = "INVALID" THEN DecodeFail
            ELSE ScanString(Drop(s, 2), Append(acc, UnescapeByte(s[2])))
  ELSE ScanString(Tail(s), Append(acc, Head(s)))

ParseString(s) ==
  IF s # <<>> /\ Head(s) = "QUOTE" THEN ScanString(Tail(s), <<>>) ELSE DecodeFail

UnmarshalFail == [ok |-> FALSE, Key |-> <<>>, Value |-> <<>>]

\* json.Unmarshal(line, &entry) on the documents this store meets: a record
\* as jsonMarshal writes it, between optional white space.  Everything else
\* (a cut record, two records in one line, an empty line) is a syntax error.
jsonUnmarshal(line) ==
  LET t == TrimRight(TrimLeft(line))
      p1 == <<"{">> \o KeyField
  IN IF ~HasPrefix(t, p1) THEN UnmarshalFail
     ELSE LET k == ParseString(Drop(t, Len(p1)))
              p2 == <<",">> \o ValueField
          IN IF ~k.ok \/ ~HasPrefix(k.rest, p2) THEN UnmarshalFail
             ELSE LET v == ParseString(Drop(k.rest, Len(p2)))
                  IN IF ~v.ok \/ v.rest # <<"}">> THEN UnmarshalFail
                     ELSE [ok |-> TRUE, Key |-> k.str, Value |-> v.str]

\* One record as Set writes it: the document and the line delimiter.
RecordBytes(key, value) == jsonMarshal(key, value) \o <<"LF">>

RECURSIVE LogOf(_)
LogOf(recs) ==
  IF recs = <<>> THEN <<>>
  ELSE RecordBytes(Head(recs).key, Head(recs).value) \o LogOf(Tail(recs))

\* ------------------------------------------------------------ the Index map

EmptyMap == [k \in {} |-> 0]

MapPut(d, k, off) == [x \in (DOMAIN d) \cup {k} |-> IF x = k THEN off ELSE d[x]]

MapDelete(d, k) == [x \in (DOMAIN d) \ {k} |-> d[x]]

\* --------------------------------------------------------------- os.File

\* An open that truncates the file (O_TRUNC).
OpenFileTruncating(f) == <<>>

\* os.OpenFile(path, O_CREATE|O_RDWR|O_APPEND, 0644): the content is kept (an
\* absent file is created empty) and the handle's offset starts at 0.
OpenFile(f) == f

\* file.Seek(0, os.SEEK_END): the end of the file.
SeekEnd(f) == Len(f)

\* A write that is skipped when the file already holds these bytes.
WriteAppendUnlessPresent(f, bytes) ==
  IF \E i \in 0..(Len(f) - Len(bytes)) : SubSeq(f, i + 1, i + Len(bytes)) = bytes
  THEN f
  ELSE f \o bytes

\* file.Write on an O_APPEND handle: the bytes go to the end of the file,
\* wherever the handle's offset is.
WriteAppend(f, bytes) == f \o bytes

\* file.Read(p) with len(p) = n at offset c: the bytes from c, at most n, and
\* none at or after the end (io.EOF).
ReadAt(f, c, n) ==
  IF c >= Len(f) THEN <<>>
  ELSE SubSeq(f, c + 1, IF c + n < Len(f) THEN c + n ELSE Len(f))

\* ------------------------------------------------------ bufio.Scanner, scan

\* bufio.ScanLines's dropCR: a trailing carriage return is not part of the line.
dropCR(line) ==
  IF line # <<>> /\ line[Len(line)] = "CR" THEN Take(line, Len(line) - 1) ELSE line

\* What loadIndex adds to offset after a line.
LineAdvance(line) == Len(line) + 1

\* A scan that keeps the first offset it saw for a key.
ScanPutFirst(d, k, off) == IF k \in DOMAIN d THEN d ELSE MapPut(d, k, off)

\* db.data[entry.Key] = offset
ScanPut(d, k, off) == MapPut(d, k, off)

\* The loop of loadIndex over the unread bytes: each line is decoded and its
\* key mapped to the running offset.  A line that reaches MaxScanTokenSize
\* bytes without its delimiter ends the scan with bufio.ErrTooLong; a last
\* line without a delimiter is a line like any other.
RECURSIVE ScanLoop(_, _, _)
ScanLoop(rest, offset, d) ==
  IF rest = <<>> THEN [err |-> "nil", data |-> d]
  ELSE LET i == IndexByte(rest, "LF")
           raw == IF i > 0 THEN Take(rest, i - 1) ELSE rest
       IN IF Len(raw) >= MaxScanTokenSize
          THEN [err |-> "token too long", data |-> d]
          ELSE LET line == dropCR(raw)
                   entry == jsonUnmarshal(line)
               IN IF ~entry.ok THEN [err |-> "json", data |-> d]
                  ELSE ScanLoop(IF i > 0 THEN Drop(rest, i) ELSE <<>>,
                                offset + LineAdvance(line),
                                ScanPut(d, entry.Key, offset))

\* A scan that reports the end of an empty file as an error.
loadIndexRejectingEmpty(f) ==
  IF f = <<>> THEN [err |-> "EOF", data |-> EmptyMap] ELSE ScanLoop(f, 0, EmptyMap)

\* loadIndex: the scan of the whole file from offset 0 into the empty map.
loadIndex(f) == ScanLoop(f, 0, EmptyMap)

\* ------------------------------------------------------------------- state

VARIABLES
  disk,     \* the bytes of the file at db.path
  db,       \* "nil": no store (before OpenDB, or OpenDB failed); "open"; "closed"
  data,     \* db.data, the Index
  cursor,   \* the offset of the handle db.file
  handles,  \* handles of the file the process holds open
  writer,   \* db.mu: the threads holding it exclusively (none or one)
  readers,  \* db.mu: the threads holding it shared
  procs,    \* the threads of the process that call the store
  inputs,   \* the values the callers pass to Set
  pc,       \* per thread: "idle", "lock" (called, before db.mu), "write", "seek", "read"
  call,     \* per thread: the call in progress
  res,      \* what the call returned that the last step completed, if it completed one
  openErr,  \* what the last OpenDB returned: "unset", "nil" or the error
  before,   \* the Index as it was when the last OpenDB began
  val,      \* per key: the value of the last successful Set, over all sessions
  sess,     \* per key, in this session: "untouched", "set" or "deleted" (the last successful one)
  mark,     \* per key, at the last OpenDB: "none", "kept" (its last operation a Set) or "deleted"
  initLog,  \* the file as the first OpenDB found it
  written,  \* the records of the successful Sets, in order of completion
  concKeys, \* keys whose last Set ran together with a Set of another key
  nOpens,   \* OpenDB calls so far
  nFaults   \* writes that have failed so far

vars == <<disk, db, data, cursor, handles, writer, readers, procs, inputs, pc, call, res,
          openErr, before, val, sess, mark, initLog, written, concKeys, nOpens, nFaults>>

storeVars == <<disk, db, data, cursor, handles>>

ghostVars == <<openErr, before, val, sess, mark, initLog, written, concKeys, nOpens, nFaults>>

NoVal == [ok |-> FALSE, v |-> <<>>]

SomeVal(v) == [ok |-> TRUE, v |-> v]

NoCall == [op |-> "none", key |-> <<>>, value |-> <<>>, off |-> 0, buf |-> <<>>,
           seen |-> {}, conc |-> FALSE]

NoRes == [thread |-> "none", op |-> "none", key |-> <<>>, err |-> "nil", value |-> <<>>,
          status |-> "none",
          want |-> NoVal, sess |-> "untouched", mark |-> "none", seen |-> {},
          conc |-> FALSE]

\* handleSet: the response status for what db.Set returned.
handleSet(err) == IF err # "nil" THEN "StatusInternalServerError" ELSE "StatusOK"

\* handleGet: the response status for what db.Get returned.
handleGet(err) == IF err # "nil" THEN "StatusNotFound" ELSE "StatusOK"

\* handleDelete: the response status for what db.Delete returned.
handleDelete(err) == IF err # "nil" THEN "StatusNotFound" ELSE "StatusOK"

\* The status the handler of the call answers with; Close has no handler.
StatusOf(op, err) ==
  CASE op = "Set"    -> handleSet(err)
    [] op = "Get"    -> handleGet(err)
    [] op = "Delete" -> handleDelete(err)
    [] OTHER         -> "none"

\* What a completed call returned and its handler answered, with the history
\* of its key as it was when the call held db.mu.
Result(t, c, err, value) ==
  [thread |-> t, op |-> c.op, key |-> c.key, err |-> err, value |-> value,
   status |-> StatusOf(c.op, err),
   want |-> IF c.key \in Keys THEN val[c.key] ELSE NoVal,
   sess |-> IF c.key \in Keys THEN sess[c.key] ELSE "untouched",
   mark |-> IF c.key \in Keys THEN mark[c.key] ELSE "none",
   seen |-> c.seen, conc |-> c.conc]

\* The value the key holds for a reader: that of its last Set, unless a
\* Delete followed it in this session.
Current(k) == IF val[k].ok /\ sess[k] # "deleted" THEN {val[k].v} ELSE {}

\* ---------------------------------------------------------------- the files

\* The files OpenDB may find: written by earlier sessions of the store
\* (cut = 0), or such a file with its last cut bytes lost.
OneRecordLog == [recs |-> <<[key |-> <<"a">>, value |-> <<"1">>]>>, cut |-> 0]

WholeLogs == { [recs |-> <<>>, cut |-> 0], OneRecordLog }

DamagedLogs ==
  { [recs |-> <<[key |-> <<"a">>, value |-> <<"1">>]>>, cut |-> 1],
    [recs |-> <<[key |-> <<"a">>, value |-> <<"1">>]>>, cut |-> 2],
    [recs |-> <<[key |-> <<"b">>, value |-> <<"LF">>],
                [key |-> <<"a">>, value |-> <<"1">>]>>, cut |-> 1],
    [recs |-> <<[key |-> <<"b">>, value |-> <<"LF">>],
                [key |-> <<"a">>, value |-> <<"1">>]>>, cut |-> 9] }

FileOf(l) == Take(LogOf(l.recs), Len(LogOf(l.recs)) - l.cut)

RECURSIVE LastValue(_, _)
LastValue(recs, k) ==
  IF recs = <<>> THEN NoVal
  ELSE IF recs[Len(recs)].key = k THEN SomeVal(recs[Len(recs)].value)
  ELSE LastValue(Take(recs, Len(recs) - 1), k)

InitWith(threads, logs, values) ==
  \E l \in logs :
    /\ disk = FileOf(l)
    /\ initLog = FileOf(l)
    /\ val = [k \in Keys |-> LastValue(l.recs, k)]
    /\ db = "nil"
    /\ data = EmptyMap
    /\ cursor = 0
    /\ handles = 0
    /\ writer = {}
    /\ readers = {}
    /\ procs = threads
    /\ inputs = values
    /\ pc = [t \in Threads |-> "idle"]
    /\ call = [t \in Threads |-> NoCall]
    /\ res = NoRes
    /\ openErr = "unset"
    /\ before = EmptyMap
    /\ sess = [k \in Keys |-> "untouched"]
    /\ mark = [k \in Keys |-> "none"]
    /\ written = <<>>
    /\ concKeys = {}
    /\ nOpens = 0
    /\ nFaults = 0

\* One caller at a time, on a file the store wrote.
Init == InitWith({"t1"}, WholeLogs, Values)

\* Several callers at a time, on a file that holds one record, with values
\* whose records the scan accepts.
InitConc == InitWith(Threads, {OneRecordLog}, ShortValues)

\* One caller; the file may have lost its last bytes.
InitDamaged == InitWith({"t1"}, WholeLogs \cup DamagedLogs, Values)

\* ------------------------------------------------------------ sync.RWMutex

\* A Lock that excludes nobody.
CanLockUnguarded(t) == TRUE

\* db.mu.Lock() returns when no thread holds db.mu.
CanLock(t) == writer = {} /\ readers = {}

\* db.mu.RLock() returns when no thread holds db.mu exclusively.
CanRLock(t) == writer = {}

\* ------------------------------------------------------------------ OpenDB

MarkAtOpen(k) ==
  IF ~val[k].ok THEN "none"
  ELSE IF sess[k] = "set" THEN "kept"
  ELSE IF sess[k] = "deleted" THEN "deleted"
  ELSE IF mark[k] = "none" THEN "kept"
  ELSE mark[k]

\* OpenDB(path), by the process at its start: the file is opened and scanned.
\* When the scan fails no store is returned, and the handle stays open.
OpenDB ==
  /\ db \in {"nil", "closed"}
  /\ \A t \in procs : pc[t] = "idle"
  /\ nOpens < MaxOpens
  /\ LET f == OpenFile(disk)
         r == loadIndex(f)
     IN /\ disk' = f
        /\ handles' = handles + 1
        /\ IF r.err = "nil"
           THEN db' = "open" /\ data' = r.data /\ cursor' = Len(f)
           ELSE db' = "nil" /\ data' = EmptyMap /\ cursor' = 0
        /\ openErr' = r.err
  /\ before' = IF db = "closed" THEN data ELSE before
  /\ mark' = [k \in Keys |-> MarkAtOpen(k)]
  /\ sess' = [k \in Keys |-> "untouched"]
  /\ nOpens' = nOpens + 1
  /\ concKeys' = {}
  /\ res' = NoRes
  /\ UNCHANGED <<writer, readers, procs, inputs, pc, call, val, initLog, written, nFaults>>

\* ------------------------------------------------------------------- calls

InFlight(ops) == { u \in procs : pc[u] # "idle" /\ call[u].op \in ops }

\* A handler calls db.Set(key, value).  Two Sets of different keys that are in
\* progress together are concurrent Sets on disjoint keys; a Get in progress
\* now runs concurrently with this Set.
CallSet(t, k, v) ==
  /\ db # "nil" /\ pc[t] = "idle"
  /\ db = "open" => Len(written) + Cardinality(InFlight({"Set"})) < MaxSets
  /\ LET others == { u \in InFlight({"Set"}) : call[u].key # k } \cup InFlight({"Get"})
     IN call' = [u \in Threads |->
                   IF u = t THEN [NoCall EXCEPT !.op = "Set", !.key = k, !.value = v,
                                                !.conc = ((InFlight({"Set"}) \cap others) # {})]
                   ELSE IF u \in others THEN [call[u] EXCEPT !.conc = TRUE]
                   ELSE call[u]]
  /\ pc' = [pc EXCEPT ![t] = "lock"]
  /\ res' = NoRes
  /\ UNCHANGED <<storeVars, writer, readers, procs, inputs, ghostVars>>

\* A handler calls db.Get(key).
CallGet(t, k) ==
  /\ db # "nil" /\ pc[t] = "idle"
  /\ call' = [call EXCEPT ![t] = [NoCall EXCEPT !.op = "Get", !.key = k,
                                                !.seen = Current(k),
                                                !.conc = (InFlight({"Set", "Delete"}) # {})]]
  /\ pc' = [pc EXCEPT ![t] = "lock"]
  /\ res' = NoRes
  /\ UNCHANGED <<storeVars, writer, readers, procs, inputs, ghostVars>>

\* A handler calls db.Delete(key); a Get in progress now runs concurrently
\* with this Delete.
CallDelete(t, k) ==
  /\ db # "nil" /\ pc[t] = "idle"
  /\ call' = [u \in Threads |->
                IF u = t THEN [NoCall EXCEPT !.op = "Delete", !.key = k]
                ELSE IF u \in InFlight({"Get"}) THEN [call[u] EXCEPT !.conc = TRUE]
                ELSE call[u]]
  /\ pc' = [pc EXCEPT ![t] = "lock"]
  /\ res' = NoRes
  /\ UNCHANGED <<storeVars, writer, readers, procs, inputs, ghostVars>>

\* The process calls db.Close().
CallClose(t) ==
  /\ db # "nil" /\ pc[t] = "idle"
  /\ call' = [call EXCEPT ![t] = [NoCall EXCEPT !.op = "Close"]]
  /\ pc' = [pc EXCEPT ![t] = "lock"]
  /\ res' = NoRes
  /\ UNCHANGED <<storeVars, writer, readers, procs, inputs, ghostVars>>

\* The call of thread t returns.
Return(t, err, value) ==
  /\ res' = Result(t, call[t], err, value)
  /\ pc' = [pc EXCEPT ![t] = "idle"]

\* --------------------------------------------------------------------- Set

\* Set: db.mu.Lock(), json.Marshal, db.file.Seek(0, os.SEEK_END).  The seek
\* fails on a closed file and Set returns its error.
SetSeek(t) ==
  /\ pc[t] = "lock" /\ call[t].op = "Set"
  /\ CanLock(t)
  /\ IF db = "closed"
     THEN /\ Return(t, "file already closed", <<>>)
          /\ call' = [call EXCEPT ![t] = NoCall]
          /\ UNCHANGED <<cursor, writer>>
     ELSE /\ writer' = writer \cup {t}
          /\ cursor' = SeekEnd(disk)
          /\ call' = [call EXCEPT ![t].off = SeekEnd(disk)]
          /\ pc' = [pc EXCEPT ![t] = "write"]
          /\ res' = NoRes
  /\ UNCHANGED <<disk, db, data, handles, readers, procs, inputs, ghostVars>>

\* db.data[key] = offset
IndexAfterSet(d, k, off) == MapPut(d, k, off)

\* Set: db.file.Write(append(data, '\n')), db.data[key] = offset, and the
\* deferred db.mu.Unlock().
SetWrite(t) ==
  /\ pc[t] = "write"
  /\ LET c == call[t]
     IN /\ disk' = WriteAppend(disk, RecordBytes(c.key, c.value))
        /\ cursor' = Len(disk')
        /\ data' = IndexAfterSet(data, c.key, c.off)
        /\ val' = [val EXCEPT ![c.key] = SomeVal(c.value)]
        /\ sess' = [sess EXCEPT ![c.key] = "set"]
        /\ written' = Append(written, [key |-> c.key, value |-> c.value])
        /\ concKeys' = IF c.conc THEN concKeys \cup {c.key} ELSE concKeys \ {c.key}
        /\ call' = [u \in Threads |->
                      IF u = t THEN NoCall
                      ELSE IF pc[u] # "idle" /\ call[u].op = "Get" /\ call[u].key = c.key
                      THEN [call[u] EXCEPT !.seen = @ \cup {c.value}]
                      ELSE call[u]]
  /\ writer' = writer \ {t}
  /\ Return(t, "nil", <<>>)
  /\ UNCHANGED <<db, handles, readers, procs, inputs, openErr, before, mark, initLog,
                 nOpens, nFaults>>

\* What reaches the file of a write that fails: nothing, its first byte, or
\* all of it but the last byte.
PartialWrites(bytes) == { <<>>, Take(bytes, 1), Take(bytes, Len(bytes) - 1) }

\* A Set that maps the key although the write failed.
IndexBeforeWrite(d, k, off) == MapPut(d, k, off)

\* Set returns the error of Write before it reaches db.data[key] = offset.
IndexAfterFailedSet(d, k, off) == d

\* Set when db.file.Write fails (the disk is full, say): a part of the Record
\* may be in the file; Set returns the error, and the deferred Unlock runs.
SetWriteFails(t) ==
  /\ pc[t] = "write"
  /\ nFaults < MaxFaults
  /\ \E part \in PartialWrites(RecordBytes(call[t].key, call[t].value)) :
       /\ disk' = WriteAppend(disk, part)
       /\ cursor' = Len(disk')
  /\ data' = IndexAfterFailedSet(data, call[t].key, call[t].off)
  /\ nFaults' = nFaults + 1
  /\ writer' = writer \ {t}
  /\ Return(t, "write error", <<>>)
  /\ call' = [call EXCEPT ![t] = NoCall]
  /\ UNCHANGED <<db, handles, readers, procs, inputs, openErr, before, val, sess, mark,
                 initLog, written, concKeys, nOpens>>

\* --------------------------------------------------------------------- Get

\* Get: db.mu.RLock() and the lookup of db.data[key].
GetLookup(t) ==
  /\ pc[t] = "lock" /\ call[t].op = "Get"
  /\ CanRLock(t)
  /\ IF call[t].key \in DOMAIN data
     THEN /\ readers' = readers \cup {t}
          /\ call' = [call EXCEPT ![t].off = data[call[t].key]]
          /\ pc' = [pc EXCEPT ![t] = "seek"]
          /\ res' = NoRes
     ELSE /\ Return(t, "key not found", <<>>)
          /\ call' = [call EXCEPT ![t] = NoCall]
          /\ UNCHANGED readers
  /\ UNCHANGED <<storeVars, writer, procs, inputs, ghostVars>>

\* Get: db.file.Seek(offset, os.SEEK_SET) on the handle all callers share.
GetSeek(t) ==
  /\ pc[t] = "seek"
  /\ IF db = "closed"
     THEN /\ Return(t, "file already closed", <<>>)
          /\ call' = [call EXCEPT ![t] = NoCall]
          /\ readers' = readers \ {t}
          /\ UNCHANGED cursor
     ELSE /\ cursor' = call[t].off
          /\ pc' = [pc EXCEPT ![t] = "read"]
          /\ res' = NoRes
          /\ UNCHANGED <<readers, call>>
  /\ UNCHANGED <<disk, db, data, handles, writer, procs, inputs, ghostVars>>

\* One fill of the bufio.Reader: file.Read into the free part of its buffer,
\* at the handle's offset c.
Fill(f, c, buf) == ReadAt(f, c, defaultBufSize - (Len(buf) % defaultBufSize))

\* A Get that returns what the decoder left in entry, whatever it reported.
DecodedIgnoringError(line) == [err |-> "nil", value |-> jsonUnmarshal(line).Value]

\* What Get returns for the line ReadString delivered.
Decoded(line) ==
  LET entry == jsonUnmarshal(line)
  IN IF entry.ok THEN [err |-> "nil", value |-> entry.Value]
     ELSE [err |-> "json", value |-> <<>>]

\* Get: one fill inside reader.ReadString('\n'), then, when the delimiter has
\* come, json.Unmarshal of the line and the return of entry.Value.  A fill
\* that reads nothing is io.EOF, which Get returns.
GetRead(t) ==
  /\ pc[t] = "read"
  /\ LET c == call[t]
         chunk == Fill(disk, cursor, c.buf)
         buf == c.buf \o chunk
         i == IndexByte(buf, "LF")
     IN /\ cursor' = cursor + Len(chunk)
        /\ IF chunk = <<>>
           THEN /\ Return(t, "EOF", <<>>)
                /\ readers' = readers \ {t}
                /\ call' = [call EXCEPT ![t] = NoCall]
           ELSE IF i > 0
           THEN /\ Return(t, Decoded(Take(buf, i)).err, Decoded(Take(buf, i)).value)
                /\ readers' = readers \ {t}
                /\ call' = [call EXCEPT ![t] = NoCall]
           ELSE /\ call' = [call EXCEPT ![t].buf = buf]
                /\ res' = NoRes
                /\ UNCHANGED <<pc, readers>>
  /\ UNCHANGED <<disk, db, data, handles, writer, procs, inputs, ghostVars>>

\* reader.ReadString('\n') with no other caller on the handle: fills from
\* offset c until the delimiter or the end of the file.
RECURSIVE ReadString(_, _, _)
ReadString(f, c, buf) ==
  LET chunk == Fill(f, c, buf)
      b == buf \o chunk
      i == IndexByte(b, "LF")
  IN IF chunk = <<>> THEN [err |-> "EOF", line |-> buf]
     ELSE IF i > 0 THEN [err |-> "nil", line |-> Take(b, i)]
     ELSE ReadString(f, c + Len(chunk), b)

\* Get(key) run from its first to its last statement with no other call in
\* between, on an open store with file f and Index d.
GetAloneIn(f, d, k) ==
  IF k \notin DOMAIN d THEN [err |-> "key not found", value |-> <<>>]
  ELSE LET r == ReadString(f, d[k], <<>>)
       IN IF r.err # "nil" THEN [err |-> r.err, value |-> <<>>]
          ELSE Decoded(r.line)

GetAlone(k) == GetAloneIn(disk, data, k)

\* ------------------------------------------------------------------ Delete

\* A Delete that leaves the entry in the map.
IndexAfterDeleteKept(d, k) == d

\* A Delete that empties the map.
IndexAfterDeleteAll(d, k) == EmptyMap

\* delete(db.data, key)
IndexAfterDelete(d, k) == MapDelete(d, k)

\* Delete, whole: db.mu.Lock(), the lookup, delete(db.data, key), Unlock.
Delete(t) ==
  /\ pc[t] = "lock" /\ call[t].op = "Delete"
  /\ CanLock(t)
  /\ IF call[t].key \in DOMAIN data
     THEN /\ data' = IndexAfterDelete(data, call[t].key)
          /\ sess' = [sess EXCEPT ![call[t].key] = "deleted"]
          /\ concKeys' = concKeys \ {call[t].key}
          /\ Return(t, "nil", <<>>)
     ELSE /\ Return(t, "key not found", <<>>)
          /\ UNCHANGED <<data, sess, concKeys>>
  /\ call' = [call EXCEPT ![t] = NoCall]
  /\ UNCHANGED <<disk, db, cursor, handles, writer, readers, procs, inputs,
                 openErr, before, val, mark, initLog, written, nOpens, nFaults>>

\* ------------------------------------------------------------------- Close

\* A Close that releases a handle each time it is called.
HandlesAfterCloseAlways(h, st) == h - 1

\* db.file.Close(): the handle is released, once; a closed file has none.
HandlesAfterClose(h, st) == IF st = "open" THEN h - 1 ELSE h

\* Close, whole: db.mu.Lock(), db.file.Close(), Unlock.  Closing a closed
\* file returns an error.
Close(t) ==
  /\ pc[t] = "lock" /\ call[t].op = "Close"
  /\ CanLock(t)
  /\ handles' = HandlesAfterClose(handles, db)
  /\ IF db = "open"
     THEN /\ db' = "closed"
          /\ Return(t, "nil", <<>>)
     ELSE /\ Return(t, "file already closed", <<>>)
          /\ UNCHANGED db
  /\ call' = [call EXCEPT ![t] = NoCall]
  /\ UNCHANGED <<disk, data, cursor, writer, readers, procs, inputs, ghostVars>>

\* ----------------------------------------------------------- specifications

Next ==
  \/ OpenDB
  \/ \E t \in procs, k \in Keys, v \in inputs : CallSet(t, k, v)
  \/ \E t \in procs, k \in Keys : CallGet(t, k)
  \/ \E t \in procs, k \in Keys : CallDelete(t, k)
  \/ \E t \in procs : CallClose(t)
  \/ \E t \in procs : SetSeek(t)
  \/ \E t \in procs : SetWrite(t)
  \/ \E t \in procs : GetLookup(t)
  \/ \E t \in procs : GetSeek(t)
  \/ \E t \in procs : GetRead(t)
  \/ \E t \in procs : Delete(t)
  \/ \E t \in procs : Close(t)

Spec == Init /\ [][Next]_vars

SpecConc == InitConc /\ [][Next]_vars

SpecDamaged == InitDamaged /\ [][Next]_vars

\* The steps of the program when writes may fail.
NextFaulty ==
  \/ Next
  \/ \E t \in procs : SetWriteFails(t)

SpecFaulty == Init /\ [][NextFaulty]_vars

\* ------------------------------------------------------------------ claims

\* The call the last step completed was a Get of an open store.
GetReturned == res.op = "Get" /\ db = "open"

\* The Get returned v, the value of the last successful Set of its key.
ReturnedLastSet == res.err = "nil" /\ res.want.ok /\ res.value = res.want.v

\* C1: with one caller at a time, a Get(k) of an open store whose key's last
\* successful operation was Set(k, v) returns exactly v, whatever was done to
\* k before that Set.
C1_ReadYourWrites == (GetReturned /\ res.sess = "set") => ReturnedLastSet

\* C1's case: k held another value in the file, was then set to a value that
\* needs escaping, and Get returns that value.
C1_Witness ==
  /\ GetReturned /\ res.sess = "set" /\ res.key = <<"a">>
  /\ initLog = RecordBytes(<<"a">>, <<"1">>)
  /\ res.value = <<"LF">>
  /\ Len(written) = 1

\* C2: with several callers, every Get that finds its key in the Index
\* returns the value of the most recent Set of that key, whatever the other
\* Gets do to the shared handle.
C2_ConcurrentGets == (GetReturned /\ res.err # "key not found") => ReturnedLastSet

\* C3: a Get(k) whose key's last successful operation in the session was
\* Delete(k) fails with "key not found", whatever was done to other keys.
C3_DeletedStaysNotFound ==
  (res.op = "Get" /\ res.sess = "deleted") => res.err = "key not found"

\* C3's case: k was deleted, another key is set, and Get(k) finds nothing.
C3_Witness ==
  /\ res.op = "Get" /\ res.sess = "deleted" /\ res.err = "key not found"
  /\ \E k \in Keys \ {res.key} : sess[k] = "set" /\ k \in DOMAIN data
  /\ db = "open"

\* C4: after Close and a reopen, for every key whose last operation was a
\* successful Set, OpenDB succeeded, the rebuilt Index maps the key to the
\* offset it had before Close, and Get returns the value set.
C4_PersistenceRoundTrip ==
  /\ (nOpens >= 2 /\ \E k \in Keys : mark[k] = "kept") => openErr = "nil"
  /\ \A k \in Keys :
       (nOpens >= 2 /\ db = "open" /\ mark[k] = "kept" /\ sess[k] = "untouched"
          /\ k \in DOMAIN before)
       => (k \in DOMAIN data /\ data[k] = before[k])
  /\ (GetReturned /\ res.mark = "kept" /\ res.sess = "untouched") => ReturnedLastSet

\* C5: after Close and a reopen, a Get of a key that was set to v and then
\* deleted, and not touched since the reopen, returns v and not "key not found".
C5_DeletionsDoNotSurvive ==
  (GetReturned /\ res.mark = "deleted" /\ res.sess = "untouched") => ReturnedLastSet

\* C5's case: the key was set twice and deleted, the store closed and
\* reopened, and Get returns the second value.
C5_Witness ==
  /\ GetReturned /\ res.mark = "deleted" /\ res.sess = "untouched"
  /\ nOpens = 2 /\ res.err = "nil" /\ res.value = <<"LF">>
  /\ initLog = RecordBytes(res.key, <<"1">>)

\* The offsets at which a line of the file starts.
LineStarts(f) == {0} \cup { i \in 1..(Len(f) - 1) : f[i] = "LF" }

\* The line of f that starts at offset off, without its delimiter, when
\* the delimiter is there.
LineAt(f, off) ==
  LET rest == Drop(f, off)
      i == IndexByte(rest, "LF")
  IN [whole |-> i > 0, line |-> IF i > 0 THEN Take(rest, i - 1) ELSE rest]

\* A complete Record with key k starts at offset off of f.
RecordOfKeyAt(f, off, k) ==
  /\ off \in LineStarts(f)
  /\ off < Len(f)
  /\ LineAt(f, off).whole
  /\ jsonUnmarshal(LineAt(f, off).line).ok
  /\ jsonUnmarshal(LineAt(f, off).line).Key = k

\* C6: in every state of an open store, each key of the Index is mapped to
\* the offset at which a complete Record starts, the Record's key is that
\* key, and no later Record of the Log has that key.  It holds while the file
\* OpenDB found was a sequence of complete Records; OpenDB also accepts a file
\* whose last Record lacks its delimiter, and then it does not.
C6_IndexInvariant ==
  db = "open" =>
    \A k \in DOMAIN data :
      /\ RecordOfKeyAt(disk, data[k], k)
      /\ \A off \in LineStarts(disk) :
           (off > data[k] /\ off < Len(disk)) => ~RecordOfKeyAt(disk, off, k)

\* The file is a sequence of complete Records, each of which decodes.
WellFormed(f) ==
  /\ f # <<>> => f[Len(f)] = "LF"
  /\ \A off \in LineStarts(f) :
       off < Len(f) => jsonUnmarshal(LineAt(f, off).line).ok

\* C7: when the file OpenDB finds holds a Record that is damaged or cut
\* short, OpenDB returns an error and no store, and no Index is left.
C7_OpenRejectsDamagedFile ==
  (nOpens = 1 /\ ~WellFormed(initLog)) =>
    (openErr # "nil" /\ db = "nil" /\ data = EmptyMap)

\* C8: once concurrent Sets of different keys have all returned, the Index
\* holds each key, a Get of each returns its value, the keys' offsets differ
\* and each Record lies whole at its offset.
C8_ConcurrentSets ==
  (db = "open" /\ (\A t \in procs : pc[t] = "idle") /\ Cardinality(concKeys) >= 2) =>
    \A k \in concKeys :
      /\ k \in DOMAIN data
      /\ GetAlone(k) = [err |-> "nil", value |-> val[k].v]
      /\ \A k2 \in concKeys \ {k} : data[k2] # data[k]
      /\ LET rec == RecordBytes(k, val[k].v)
         IN /\ data[k] + Len(rec) <= Len(disk)
            /\ SubSeq(disk, data[k] + 1, data[k] + Len(rec)) = rec

\* C8's case: two Sets, of both keys, ran together and have returned.
C8_Witness ==
  /\ db = "open" /\ (\A t \in procs : pc[t] = "idle")
  /\ concKeys = Keys
  /\ res.op = "Set" /\ res.conc

\* C9: a Get that ran concurrently with a Set or a Delete returns "key not
\* found" or a value its key held at some instant of the call.
C9_NoTornRead ==
  (GetReturned /\ res.conc) =>
    (res.err = "key not found" \/ (res.err = "nil" /\ res.value \in res.seen))

C11_DeleteFrame ==
  [][res'.op = "Delete" =>
       /\ disk' = disk
       /\ \A k \in Keys \ {res'.key} :
            /\ (k \in DOMAIN data') <=> (k \in DOMAIN data)
            /\ k \in DOMAIN data => data'[k] = data[k]
       /\ res'.key \notin DOMAIN data => (res'.err = "key not found" /\ data' = data)
       /\ res'.key \in DOMAIN data => (res'.err = "nil" /\ res'.key \notin DOMAIN data')]_vars

\* C11's case: a Delete has removed its key while the other key is in the
\* Index, at an offset behind the deleted key's Record.
C11_Witness ==
  /\ res.op = "Delete" /\ res.err = "nil" /\ db = "open"
  /\ res.key \notin DOMAIN data
  /\ \E k \in DOMAIN data : data[k] > 0
  /\ RecordOfKeyAt(disk, 0, res.key)

\* The bytes at the key's offset are not a complete Record that decodes.
NoRecordAt(f, off) ==
  \/ off >= Len(f)
  \/ ~LineAt(f, off).whole
  \/ ~jsonUnmarshal(LineAt(f, off).line).ok

\* C12: a Get returns "key not found" exactly when its key is not in the
\* Index; when the key is in the Index and the file is closed, or the bytes at
\* its offset are no complete Record that decodes, Get returns an error that
\* is not "key not found", and no value.
C12_KeyNotFoundOnlyWhenAbsent ==
  res.op = "Get" =>
    /\ (res.err = "key not found") <=> (res.key \notin DOMAIN data)
    /\ (res.key \in DOMAIN data /\ (db = "closed" \/ NoRecordAt(disk, data[res.key])))
         => (res.err \in {"file already closed", "EOF", "json"} /\ res.value = <<>>)

\* C12's case: the line at the key's offset does not decode (a Set has
\* appended behind a Record cut short), and Get returns the decoder's error.
C12_Witness ==
  /\ res.op = "Get" /\ db = "open" /\ res.key \in DOMAIN data
  /\ LineAt(disk, data[res.key]).whole
  /\ ~jsonUnmarshal(LineAt(disk, data[res.key]).line).ok
  /\ res.err = "json"

\* C13: while the store is open, the handlers of Get and Delete answer "not
\* found" only when the call returned "key not found", and answer a server
\* error when it returned any other error.
C13_NotFoundOnlyForKeyNotFound ==
  (res.op \in {"Get", "Delete"} /\ db = "open") =>
    /\ (res.status = "StatusNotFound") <=> (res.err = "key not found")
    /\ res.err \notin {"nil", "key not found"} => res.status = "StatusInternalServerError"

\* C14: when the file was empty (or absent) at the first OpenDB, OpenDB
\* returns a store; until a Set succeeds the Index is empty, also after a
\* reopen, and a Get of a key that was never set returns "key not found".
C14_EmptyFileOpens ==
  (initLog = <<>> /\ nOpens >= 1) =>
    /\ written = <<>> => (openErr = "nil" /\ db # "nil" /\ data = EmptyMap)
    /\ (res.op = "Get" /\ ~res.want.ok) => res.err = "key not found"

\* C14's case: the file was empty, one key has been set, and a Get of the
\* other key finds nothing.
C14_Witness ==
  /\ initLog = <<>> /\ db = "open" /\ Len(written) = 1
  /\ res.op = "Get" /\ ~res.want.ok /\ res.err = "key not found"
  /\ DOMAIN data = Keys \ {res.key}

\* C15: the step on which a Set(k, v) returns without error appends exactly
\* the one Record of (k, v) to the file, whatever the Index held for k, and
\* leaves the Index as it was but for k, which is mapped to the length the
\* file had before the append.
C15_SetAlwaysAppends ==
  [][(res'.op = "Set" /\ res'.err = "nil") =>
       /\ disk' = disk \o RecordBytes(res'.key, call[res'.thread].value)
       /\ DOMAIN data' = DOMAIN data \cup {res'.key}
       /\ data'[res'.key] = Len(disk)
       /\ \A k \in DOMAIN data \ {res'.key} : data'[k] = data[k]]_vars

\* C15's case: the key was mapped to a Record of the same value, a Set of
\* that value has returned, and the file holds the Record twice.
C15_Witness ==
  /\ res.op = "Set" /\ res.err = "nil" /\ db = "open"
  /\ LET rec == RecordBytes(res.key, res.want.v)
     IN /\ disk = rec \o rec
        /\ data[res.key] = Len(rec)

\* C16: the step on which a Set returns an error (the file is closed, or the
\* write failed) leaves the Index as it was, and every Get that would have
\* returned a value or an error before the Set returns the same after it.
C16_FailedSetKeepsIndex ==
  [][(res'.op = "Set" /\ res'.err # "nil") =>
       /\ data' = data
       /\ db' = db
       /\ \A k \in Keys : GetAloneIn(disk', data', k) = GetAloneIn(disk, data, k)]_vars

\* C16's case: a write has failed with a part of the Record in the file, the
\* store is open and maps both keys.
C16_Witness ==
  /\ res.op = "Set" /\ res.err = "write error" /\ db = "open"
  /\ DOMAIN data = Keys
  /\ Len(disk) > Len(initLog \o LogOf(written))

\* C17: the step on which a Close of a closed store returns leaves the
\* Index, the file, the file offset and the handles held as they were, so that
\* the scan of a reopen builds the Index it would have built before.
C17_DoubleClose ==
  [][(res'.op = "Close" /\ db = "closed") =>
       /\ res'.err = "file already closed"
       /\ data' = data /\ disk' = disk /\ db' = db
       /\ cursor' = cursor /\ handles' = handles
       /\ loadIndex(OpenFile(disk')) = loadIndex(OpenFile(disk))]_vars

\* C17's case: a second Close has returned its error on a store that holds
\* two Records of a key, and no handle is held.
C17_Witness ==
  /\ res.op = "Close" /\ res.err = "file already closed" /\ db = "closed"
  /\ handles = 0
  /\ Len(written) = 1 /\ initLog # <<>> /\ written[1].key \in DOMAIN data
  /\ data[written[1].key] = Len(initLog)

\* C18: a file that holds nothing but the Records of successful Sets of this
\* store, of whatever length, is opened without error by every OpenDB.
C18_ReopenAcceptsOwnOutput ==
  (/\ nOpens >= 1
   /\ \E l \in WholeLogs : initLog = LogOf(l.recs)
   /\ disk = initLog \o LogOf(written))
    => openErr = "nil"

\* C19: every handle OpenDB has acquired belongs to the store it returned or
\* has been released: one handle is held while a store is open, none when
\* OpenDB has returned an error or the store is closed.
C19_NoHandleLeak == handles = (IF db = "open" THEN 1 ELSE 0)

====
